---- MODULE Spec2Model ----
(***************************************************************************)
(* Model of nanobot's state and scheduling core:                           *)
(*   - Session / SessionManager (src/nanobot/session/manager.py)           *)
(*   - the per-key dispatch path and the cron scheduler, whose code is not *)
(*     part of the source tree and is modelled from the specification.     *)
(*                                                                         *)
(* Python dicts are functions whose DOMAIN is the set of keys present, so  *)
(* that "k in d" and d.get(k, default) are modelled as the code evaluates  *)
(* them.  Strings that the code inspects character by character (session   *)
(* keys) are sequences of one-character strings.                           *)
(***************************************************************************)
EXTENDS Integers, Sequences, FiniteSets, TLC

VARIABLES
    sessions,     \* the Session objects allocated so far (index = identity)
    cache,        \* SessionManager._cache: key -> index into sessions, 0 = absent
    files,        \* the sessions directory: file name -> sequence of lines
    legacy,       \* the legacy directory ~/.nanobot/sessions, likewise
    now,          \* the wall clock read by datetime.now()
    disturbed,    \* history: instances whose key was invalidated, or replaced
                  \* in the cache by a save, after they were handed out
    lastSaved,    \* history: file name -> what save() last wrote there
    lastOp,       \* history: what the last step did (load, create, raise, clear,
                  \* invalidate, or other), on which Session and key
    pc,           \* dispatch -> "idle", "waiting", "read", "append", "done"
    tkey,         \* dispatch -> its conversation key
    tinst,        \* dispatch -> the Session it obtained from get_or_create
    seen,         \* dispatch -> the history it read
    lock,         \* conversation key -> the dispatch holding its serialization, 0 = free
    acq,          \* history: key -> the dispatches in the order they acquired it
    io,           \* a save() that has opened its file and not closed it yet, and
                  \* a list_sessions() scan in progress, when these run in
                  \* different threads
    jobs,         \* the job store document: the jobs in persisted order
    nowMs,        \* the scheduler's clock, epoch ms
    nextId,       \* the next job id to allocate
    calls,        \* history: job id -> number of dispatch callback invocations
    oks,          \* history: job id -> number of callbacks that returned successfully
    added,        \* history: job id -> the job as addJob stored it
    store         \* the job store file (<<>>: none, else the document in a
                  \* one-element sequence) and whether the service has loaded it

sessionVars == <<sessions, cache, files, legacy, now, disturbed, lastSaved, lastOp>>

dispatchVars == <<pc, tkey, tinst, seen, lock, acq, io>>

cronVars == <<jobs, nowMs, nextId, calls, oks, added, store>>

vars == <<sessionVars, dispatchVars, cronVars>>

-----------------------------------------------------------------------------
(* Bounds of the model.                                                    *)

MaxLen == 4        \* longest message log (SpecHist)
MaxK == 3          \* largest max_messages tried by the history properties
MgrMaxLen == 1     \* longest message log of a managed Session (Spec, SpecCache)
Huge == MaxLen + MgrMaxLen + 1    \* a max_messages larger than any log

-----------------------------------------------------------------------------
(* Python helpers.                                                         *)

None == "None"

EmptyDict == [x \in {} |-> None]

\* d.get(k, default)
Get(d, k, default) == IF k \in DOMAIN d THEN d[k] ELSE default

\* {**base, **kwargs}: later keys win
Merge(base, kwargs) == kwargs @@ base

\* truth value of a list
Truthy(v) == v # <<>>

Min(a, b) == IF a <= b THEN a ELSE b

\* d[k] = v
Put(d, k, v) == (k :> v) @@ d

\* d.pop(k, None)
Pop(d, k) == [x \in DOMAIN d \ {k} |-> d[x]]

\* datetime.isoformat / datetime.fromisoformat
isoformat(t) == [iso |-> t]

fromisoformat(str) == str.iso

RECURSIVE Reversed(_)
Reversed(s) == IF s = <<>> THEN <<>> ELSE Append(Reversed(Tail(s)), Head(s))

-----------------------------------------------------------------------------
(* Session (manager.py:14-85).                                             *)

\* Session(key=key): the dataclass defaults
NewSession(key, t) ==
    [key |-> key, messages |-> <<>>, created_at |-> t, updated_at |-> t,
     metadata |-> {}, last_consolidated |-> 0]

\* mutant of add_message: the message is inserted at the front of the log
add_message_prepend(session, role, content, kwargs, t) ==
    LET msg == Merge([role |-> role, content |-> content, timestamp |-> isoformat(t)],
                     kwargs)
    IN  [session EXCEPT !.messages = <<msg>> \o @, !.updated_at = t]

\* Session.add_message
add_message(session, role, content, kwargs, t) ==
    LET msg == Merge([role |-> role, content |-> content, timestamp |-> isoformat(t)],
                     kwargs)
    IN  [session EXCEPT !.messages = Append(@, msg), !.updated_at = t]

\* Session._is_context_anchor
_is_context_anchor(message) ==
    LET role == Get(message, "role", None)
    IN  IF role = "user" THEN TRUE
        ELSE IF role # "assistant" THEN FALSE
        ELSE ~Truthy(Get(message, "tool_calls", <<>>))

\* Session.count_context_messages
count_context_messages(session) ==
    Cardinality({i \in 1..Len(session.messages) :
                    _is_context_anchor(session.messages[i])})

\* the projection built for each selected message in get_history (lines 73-78)
ProjectedKeys == {"tool_calls", "tool_call_id", "name", "reasoning_content"}

Entry(m) ==
    [k \in {"role", "content"} \cup (ProjectedKeys \cap DOMAIN m) |->
        IF k = "content" THEN Get(m, "content", "") ELSE m[k]]

\* the backward scan of get_history (lines 63-70): i is the position about to
\* be visited, selected what has been appended so far (newest first)
RECURSIVE SelectBackward(_, _, _, _, _)
SelectBackward(messages, i, selected, anchors_seen, max_messages) ==
    IF i = 0 THEN selected
    ELSE LET m == messages[i]
             sel == Append(selected, m)
         IN  IF _is_context_anchor(m)
             THEN IF anchors_seen + 1 >= max_messages
                  THEN sel
                  ELSE SelectBackward(messages, i - 1, sel, anchors_seen + 1, max_messages)
             ELSE SelectBackward(messages, i - 1, sel, anchors_seen, max_messages)

\* Mutants of get_history.
\* (a) the scan stops one anchor late (anchors_seen > max_messages)
RECURSIVE SelectBackwardLate(_, _, _, _, _)
SelectBackwardLate(messages, i, selected, anchors_seen, max_messages) ==
    IF i = 0 THEN selected
    ELSE LET m == messages[i]
             sel == Append(selected, m)
         IN  IF _is_context_anchor(m)
             THEN IF anchors_seen + 1 > max_messages
                  THEN sel
                  ELSE SelectBackwardLate(messages, i - 1, sel, anchors_seen + 1, max_messages)
             ELSE SelectBackwardLate(messages, i - 1, sel, anchors_seen, max_messages)

get_history_late(session, max_messages) ==
    IF max_messages <= 0 THEN <<>>
    ELSE LET chron == Reversed(SelectBackwardLate(session.messages, Len(session.messages),
                                                  <<>>, 0, max_messages))
         IN  [j \in 1..Len(chron) |-> Entry(chron[j])]

\* (b) the window is the last max_messages messages, anchors or not
get_history_by_count(session, max_messages) ==
    IF max_messages <= 0 THEN <<>>
    ELSE LET L == Len(session.messages)
             n == Min(L, max_messages)
         IN  [j \in 1..n |-> Entry(session.messages[L - n + j])]

\* (c) the scan covers only the messages not yet consolidated
get_history_unconsolidated(session, max_messages) ==
    IF max_messages <= 0 THEN <<>>
    ELSE LET rest == SubSeq(session.messages, session.last_consolidated + 1,
                            Len(session.messages))
             chron == Reversed(SelectBackward(rest, Len(rest), <<>>, 0, max_messages))
         IN  [j \in 1..Len(chron) |-> Entry(chron[j])]

\* (d) the selected messages are returned newest first
get_history_newest_first(session, max_messages) ==
    IF max_messages <= 0 THEN <<>>
    ELSE LET selected == SelectBackward(session.messages, Len(session.messages),
                                        <<>>, 0, max_messages)
         IN  [j \in 1..Len(selected) |-> Entry(selected[j])]

\* Session.get_history
get_history(session, max_messages) ==
    IF max_messages <= 0 THEN <<>>
    ELSE LET selected == SelectBackward(session.messages, Len(session.messages),
                                        <<>>, 0, max_messages)
             chron == Reversed(selected)
         IN  [j \in 1..Len(chron) |-> Entry(chron[j])]

\* mutant of clear: the watermark is kept
clear_keep_watermark(session, t) ==
    [session EXCEPT !.messages = <<>>, !.updated_at = t]

\* Session.clear
clear(session, t) ==
    [session EXCEPT !.messages = <<>>, !.last_consolidated = 0, !.updated_at = t]

-----------------------------------------------------------------------------
(* The consolidation process is not part of the source tree; the          *)
(* specification describes it: it only moves the watermark forward, never *)
(* past the end of the log, and never touches the messages.               *)
consolidate(session, n) == [session EXCEPT !.last_consolidated = n]

-----------------------------------------------------------------------------
(* Operations on one Session object.                                       *)

Other == [op |-> "other", inst |-> 0]

\* the arguments (role, content, kwargs) of the add_message calls tried
HistInputs ==
    { <<"user", "hi", EmptyDict>>,
      <<"assistant", "done", EmptyDict>>,
      <<"assistant", "", [tool_calls |-> <<"call">>]>>,
      <<"assistant", "ok", [tool_calls |-> <<>>]>>,
      <<"tool", "res", [tool_call_id |-> "call", name |-> "exec"]>>,
      <<"system", "sys", EmptyDict>> }

AddMessage(i, inp, maxlen) ==
    /\ Len(sessions[i].messages) < maxlen
    /\ sessions' = [sessions EXCEPT ![i] = add_message(@, inp[1], inp[2], inp[3], now)]
    /\ lastOp' = Other
    /\ UNCHANGED <<cache, files, legacy, now, disturbed, lastSaved>>
    /\ UNCHANGED dispatchVars
    /\ UNCHANGED cronVars

Clear(i) ==
    /\ sessions' = [sessions EXCEPT ![i] = clear(@, now)]
    /\ lastOp' = [op |-> "clear", inst |-> i, n |-> Len(sessions[i].messages),
                  lc |-> sessions[i].last_consolidated]
    /\ UNCHANGED <<cache, files, legacy, now, disturbed, lastSaved>>
    /\ UNCHANGED dispatchVars
    /\ UNCHANGED cronVars

Consolidate(i) ==
    /\ \E n \in sessions[i].last_consolidated + 1 .. Len(sessions[i].messages) :
          sessions' = [sessions EXCEPT ![i] = consolidate(@, n)]
    /\ lastOp' = Other
    /\ UNCHANGED <<cache, files, legacy, now, disturbed, lastSaved>>
    /\ UNCHANGED dispatchVars
    /\ UNCHANGED cronVars

-----------------------------------------------------------------------------
(* SpecHist: one Session object, grown by add_message with every kind of  *)
(* message the windowing distinguishes.                                    *)

KeyCli == <<"c", "l", "i">>

\* Session.metadata is opaque to the code: an empty dict (the default) or
\* one a caller filled in, written as the set of its entries
Metadatas == {{}, {"pinned"}}

\* no save and no scan is under way
NoIo == [writer |-> <<>>, phase |-> "idle", left |-> {}, out |-> <<>>,
         listed |-> {}, partial |-> FALSE]

\* no dispatch is running
NoDispatch ==
    /\ pc = <<>>
    /\ tkey = <<>>
    /\ tinst = <<>>
    /\ seen = <<>>
    /\ lock = EmptyDict
    /\ acq = EmptyDict
    /\ io = NoIo

\* the job store is empty
NoJobs ==
    /\ jobs = <<>>
    /\ nowMs = 0
    /\ nextId = 1
    /\ calls = EmptyDict
    /\ oks = EmptyDict
    /\ added = EmptyDict
    /\ store = [file |-> <<>>, loaded |-> TRUE]

InitHist ==
    /\ NoDispatch
    /\ NoJobs
    /\ \E md \in Metadatas :
          sessions = <<[NewSession(KeyCli, 0) EXCEPT !.metadata = md]>>
    /\ cache = [k \in {KeyCli} |-> 1]
    /\ files = EmptyDict
    /\ legacy = EmptyDict
    /\ now = 0
    /\ disturbed = {}
    /\ lastSaved = EmptyDict
    /\ lastOp = Other

NextHist ==
    \/ \E inp \in HistInputs : AddMessage(1, inp, MaxLen)
    \/ Clear(1)
    \/ Consolidate(1)

SpecHist == InitHist /\ [][NextHist]_vars

-----------------------------------------------------------------------------
(* Properties of get_history.                                              *)

Anchors(seq) == Cardinality({j \in 1..Len(seq) : _is_context_anchor(seq[j])})

\* the positions of the log that get_history(k) returns, given that it
\* returned n entries: the last n
Included(session, k) ==
    LET n == Len(get_history(session, k))
        L == Len(session.messages)
    IN  (L - n + 1)..L

\* C1: for every k >= 1, get_history(k) is the projection of a contiguous
\* suffix of the log, in the log's order, holding exactly min(a, k) anchors,
\* a being the number of anchors of the log.
C1_SuffixWithMinAnchors ==
    \A i \in 1..Len(sessions) : \A k \in 1..MaxK :
        LET s == sessions[i]
            h == get_history(s, k)
            n == Len(h)
            L == Len(s.messages)
        IN  /\ n <= L
            /\ \A j \in 1..n : h[j] = Entry(s.messages[L - n + j])
            /\ Anchors(h) = Min(count_context_messages(s), k)

\* a log with more anchors than k and tool traffic between them
C1_Witness ==
    \E k \in 1..MaxK :
        /\ count_context_messages(sessions[1]) > k
        /\ Len(get_history(sessions[1], k)) > k
        /\ Len(get_history(sessions[1], k)) < Len(sessions[1].messages)

C8_WindowIgnoresWatermark ==
    \A i \in 1..Len(sessions) : \A lc \in 0..Len(sessions[i].messages) :
        LET s == sessions[i]
            t == [s EXCEPT !.last_consolidated = lc]
        IN  /\ count_context_messages(t) = count_context_messages(s)
            /\ \A k \in 0..MaxK : get_history(t, k) = get_history(s, k)

\* a session whose watermark is past an anchor that the window returns
C8_Witness ==
    /\ sessions[1].last_consolidated >= 2
    /\ _is_context_anchor(sessions[1].messages[1])
    /\ Len(get_history(sessions[1], MaxK)) = Len(sessions[1].messages)

\* C11: a clear() step leaves the Session with an empty log and
\* last_consolidated = 0, with the key and the metadata it had, and
\* get_history(k) of the cleared Session is empty for every k.
C11_ClearStep ==
    \A i \in 1..Len(sessions) :
        (lastOp'.op = "clear" /\ lastOp'.inst = i) =>
            /\ sessions'[i].messages = <<>>
            /\ sessions'[i].last_consolidated = 0
            /\ sessions'[i].key = sessions[i].key
            /\ sessions'[i].metadata = sessions[i].metadata
            /\ \A k \in -1..Huge : get_history(sessions'[i], k) = <<>>

C11_ClearEmptiesLog == [][C11_ClearStep]_vars

\* clear() has just run on a Session that had messages, a watermark past 0
\* (nothing but clear() brings it back to 0) and metadata
C11_Witness ==
    /\ lastOp.op = "clear"
    /\ lastOp.n >= 2
    /\ lastOp.lc >= 1
    /\ sessions[lastOp.inst].metadata # {}

\* C12: when add_message appends a message, get_history(k) afterwards is a
\* suffix of get_history(k) before, followed by the entry of the appended
\* message, for every k >= 1: the window start never moves backward and the
\* entries already returned keep their content and order.
C12_AppendStep ==
    \A i \in 1..Len(sessions) : \A k \in 1..MaxK :
        LET before == get_history(sessions[i], k)
            after == get_history(sessions'[i], k)
            L == Len(sessions'[i].messages)
        IN  (lastOp'.op # "clear" /\ L = Len(sessions[i].messages) + 1) =>
                \E d \in 0..Len(before) :
                    after = SubSeq(before, d + 1, Len(before))
                                \o <<Entry(sessions'[i].messages[L])>>

C12_StableSuffixes == [][C12_AppendStep]_vars

\* the last append moved the window of some k forward: the log has more than
\* k anchors, ends with one, and the window holds tool traffic
C12_Witness ==
    \E k \in 2..MaxK :
        LET s == sessions[1]
            L == Len(s.messages)
        IN  /\ L >= 1
            /\ count_context_messages(s) > k
            /\ _is_context_anchor(s.messages[L])
            /\ Len(get_history(s, k)) > k

IsPrefix(p, q) == Len(p) <= Len(q) /\ SubSeq(q, 1, Len(p)) = p

\* C18: in every step other than clear() the log before is a prefix of the
\* log after and grows by at most one message; the step that appends leaves
\* last_consolidated, key, metadata and created_at as they were.
C18_NoClearStep ==
    \A i \in 1..Len(sessions) :
        lastOp'.op # "clear" =>
            /\ IsPrefix(sessions[i].messages, sessions'[i].messages)
            /\ Len(sessions'[i].messages) <= Len(sessions[i].messages) + 1
            /\ sessions'[i].messages # sessions[i].messages =>
                  /\ sessions'[i].last_consolidated = sessions[i].last_consolidated
                  /\ sessions'[i].key = sessions[i].key
                  /\ sessions'[i].metadata = sessions[i].metadata
                  /\ sessions'[i].created_at = sessions[i].created_at

C18_AppendOnly == [][C18_NoClearStep]_vars

\* a log of different messages, grown past a watermark that is not 0
C18_Witness ==
    LET s == sessions[1]
    IN  /\ Len(s.messages) >= 3
        /\ s.messages[1] # s.messages[2]
        /\ s.last_consolidated >= 1
        /\ s.last_consolidated < Len(s.messages)

-----------------------------------------------------------------------------
(* SessionManager (manager.py:88-205).                                     *)
(* The operators take and return the manager's state as a record           *)
(* [sessions, cache, files, legacy], so that _load can call save as the    *)
(* code does.                                                              *)

\* str.replace(old, new) on a string of single characters
Replace(str, old, new) == [i \in 1..Len(str) |-> IF str[i] = old THEN new ELSE str[i]]

\* nanobot.utils.helpers.safe_filename is not part of the source tree: it
\* replaces every character that is unsafe in a file name by "_"
UnsafeChars == {"<", ">", ":", "\"", "/", "\\", "|", "?", "*"}

safe_filename(name) ==
    [i \in 1..Len(name) |-> IF name[i] \in UnsafeChars THEN "_" ELSE name[i]]

\* SessionManager._get_session_path / _get_legacy_session_path: the file
\* name inside the directory
_get_session_path(key) == Append(safe_filename(Replace(key, ":", "_")), ".jsonl")

\* Text that json.dumps writes as \uXXXX under ensure_ascii, and text that
\* holds a backslash followed by "u", which json.dumps writes as \\u
\* (the texts are named, TLA+ strings being ASCII: "tianqi" stands for the two
\* Chinese characters of "weather", "C:/users" for C, colon, backslash, users)
NonAsciiText == {"tianqi", "tianqi C:/users"}

BackslashUText == {"C:/users", "tianqi C:/users"}

\* json.dumps(obj, ensure_ascii=False) + "\n": a line of the file.  A line
\* records the object it encodes and whether non-ASCII text is escaped.
dumps(obj) == [json |-> obj, ensure_ascii |-> FALSE]

\* Lines that json.dumps did not write: an empty line, text that is not
\* JSON, and JSON that is not an object
BlankLine == [raw |-> ""]

MalformedLine == [raw |-> "{oops"]

ScalarLine == [raw |-> "3"]

\* line.strip() is empty (line 157)
Blank(line) == line = BlankLine

\* json.loads(line) raises JSONDecodeError, or returns a value on which
\* data.get raises AttributeError
LineRaises(line) == "json" \notin DOMAIN line

\* json.loads(line)
loads(line) == line.json

\* a timestamp that datetime.fromisoformat rejects with ValueError
BadTimestamp == [text |-> "yesterday"]

\* datetime.fromisoformat(data[k]) if data.get(k) else None raises
TimestampRaises(data, k) == k \in DOMAIN data /\ "iso" \notin DOMAIN data[k]

\* "\\u" in line
HasBackslashU(line) ==
    /\ "json" \in DOMAIN line
    /\ \/ line.ensure_ascii /\ Get(line.json, "content", "") \in NonAsciiText
       \/ Get(line.json, "content", "") \in BackslashUText

\* SessionManager.save
save(M, i) ==
    LET session == M.sessions[i]
        path == _get_session_path(session.key)
        metadata_line ==
            ("_type" :> "metadata") @@
            [created_at |-> isoformat(session.created_at),
             updated_at |-> isoformat(session.updated_at),
             metadata |-> session.metadata,
             last_consolidated |-> session.last_consolidated]
        written == <<dumps(metadata_line)>> \o
                   [j \in 1..Len(session.messages) |-> dumps(session.messages[j])]
    IN  [M EXCEPT !.files = Put(@, path, written),
                  !.cache = Put(@, session.key, i)]

\* one pass of the loop over the lines of the file in _load (lines 153-168);
\* acc holds the local variables, an optional datetime being <<>> (None) or <<t>>
ReadLine(acc, line, data) ==
    IF Get(data, "_type", None) = "metadata"
    THEN IF TimestampRaises(data, "created_at") \/ TimestampRaises(data, "updated_at")
         THEN [acc EXCEPT !.raised = TRUE]
         ELSE
         [messages |-> acc.messages,
          raised |-> FALSE,
          metadata |-> Get(data, "metadata", {}),
          created_at |-> IF "created_at" \in DOMAIN data
                         THEN <<fromisoformat(data["created_at"])>> ELSE <<>>,
          updated_at |-> IF "updated_at" \in DOMAIN data
                         THEN <<fromisoformat(data["updated_at"])>> ELSE <<>>,
          last_consolidated |-> Get(data, "last_consolidated", 0),
          needs_normalize_save |-> acc.needs_normalize_save \/ HasBackslashU(line)]
    ELSE [acc EXCEPT !.messages = Append(@, data),
                     !.needs_normalize_save = @ \/ HasBackslashU(line)]

\* lines 154-160: empty lines are skipped; a line that does not parse raises
ReadStep(acc, line) ==
    IF Blank(line) THEN acc
    ELSE IF LineRaises(line) THEN [acc EXCEPT !.raised = TRUE]
    ELSE ReadLine(acc, line, loads(line))

\* the loop itself, left at the first exception
RECURSIVE ReadLines(_, _, _)
ReadLines(lines, j, acc) ==
    IF j > Len(lines) \/ acc.raised THEN acc
    ELSE ReadLines(lines, j + 1, ReadStep(acc, lines[j]))

\* the start of _load (lines 133-139): the legacy file is moved into place
Migrated(M, path) ==
    IF path \notin DOMAIN M.files /\ path \in DOMAIN M.legacy
    THEN [M EXCEPT !.files = Put(@, path, M.legacy[path]), !.legacy = Pop(@, path)]
    ELSE M

\* the end of _load (lines 170-180): the Session built from what was read
Loaded(M, key, acc, t) ==
    [M |-> [M EXCEPT !.sessions = Append(@,
               [key |-> key, messages |-> acc.messages,
                created_at |-> IF acc.created_at # <<>> THEN acc.created_at[1] ELSE t,
                updated_at |-> IF acc.updated_at # <<>> THEN acc.updated_at[1] ELSE t,
                metadata |-> acc.metadata,
                last_consolidated |-> acc.last_consolidated])],
     ret |-> Len(M.sessions) + 1,
     needs_normalize_save |-> acc.needs_normalize_save,
     raised |-> FALSE]

\* mutant of Caught: the exception leaves _load
Caught_reraise(M, key, acc, t) ==
    IF acc.raised THEN [M |-> M, ret |-> 0, needs_normalize_save |-> FALSE,
                        raised |-> TRUE]
    ELSE Loaded(M, key, acc, t)

\* try ... except Exception: return None (lines 144, 181-183)
Caught(M, key, acc, t) ==
    IF acc.raised THEN [M |-> M, ret |-> 0, needs_normalize_save |-> FALSE,
                        raised |-> FALSE]
    ELSE Loaded(M, key, acc, t)

Normalized(r) ==
    IF r.needs_normalize_save
    THEN [M |-> save(r.M, r.ret), ret |-> r.ret, raised |-> r.raised, saved |-> TRUE]
    ELSE [M |-> r.M, ret |-> r.ret, raised |-> r.raised, saved |-> FALSE]

LoadFrom(M, key, path, t) ==
    IF path \notin DOMAIN M.files
    THEN [M |-> M, ret |-> 0, raised |-> FALSE, saved |-> FALSE]
    ELSE Normalized(Caught(M, key,
            ReadLines(M.files[path], 1,
                [messages |-> <<>>, metadata |-> {}, created_at |-> <<>>,
                 updated_at |-> <<>>, last_consolidated |-> 0,
                 needs_normalize_save |-> FALSE, raised |-> FALSE]), t))

\* SessionManager._load: the manager's state afterwards, the index of the
\* loaded Session, 0 for None, whether an exception left the call, and
\* whether the call rewrote the file (line 179)
_load(M, key, t) ==
    LoadFrom(Migrated(M, _get_session_path(key)), key, _get_session_path(key), t)

\* the end of get_or_create (lines 125-129), loaded being what _load returned
\* (op tells which way the call went: "get", "load", "create", or "raise"
\* when the exception of _load passed through)
Cached(loaded, key, t) ==
    IF loaded.raised THEN [M |-> loaded.M, ret |-> 0, op |-> "raise", saved |-> FALSE]
    ELSE IF loaded.ret # 0
    THEN [M |-> [loaded.M EXCEPT !.cache = Put(@, key, loaded.ret)],
          ret |-> loaded.ret, op |-> "load", saved |-> loaded.saved]
    ELSE [M |-> [loaded.M EXCEPT !.sessions = Append(@, NewSession(key, t)),
                                 !.cache = Put(@, key, Len(loaded.M.sessions) + 1)],
          ret |-> Len(loaded.M.sessions) + 1, op |-> "create", saved |-> FALSE]

\* mutant of get_or_create: the cache is not consulted
get_or_create_uncached(M, key, t) == Cached(_load(M, key, t), key, t)

\* SessionManager.get_or_create
get_or_create(M, key, t) ==
    IF key \in DOMAIN M.cache
    THEN [M |-> M, ret |-> M.cache[key], op |-> "get", saved |-> FALSE]
    ELSE Cached(_load(M, key, t), key, t)

\* mutant of invalidate: the cached entry stays
invalidate_keep(M, key) == M

\* SessionManager.invalidate
invalidate(M, key) == [M EXCEPT !.cache = Pop(@, key)]

\* path.stem of a file name
Stem(path) == SubSeq(path, 1, Len(path) - 1)

\* data.get(k), None being <<>>
OptGet(data, k) == IF k \in DOMAIN data THEN <<data[k]>> ELSE <<>>

\* the body of the loop of list_sessions (lines 217-231) for one file: the
\* summary appended, if any; an exception skips the file
ReadSummary(path, lines) ==
    IF lines = <<>> THEN <<>>
    ELSE IF Blank(lines[1]) \/ LineRaises(lines[1]) THEN <<>>
    ELSE IF Get(loads(lines[1]), "_type", None) = "metadata"
    THEN <<[key |-> Replace(Stem(path), "_", ":"),
            created_at |-> OptGet(loads(lines[1]), "created_at"),
            updated_at |-> OptGet(loads(lines[1]), "updated_at"),
            path |-> path]>>
    ELSE <<>>

\* the loop over the files in the order glob yields them
RECURSIVE Summaries(_, _)
Summaries(fs, order) ==
    IF order = <<>> THEN <<>>
    ELSE ReadSummary(Head(order), fs[Head(order)]) \o Summaries(fs, Tail(order))

\* the sort key x.get("updated_at", ""): the summary always has the key, so
\* the default is never used.  ISO strings compare as their times do, and
\* any other text that starts with a letter sorts after them.
LetterFirst == 99

SortKey(entry) ==
    IF "iso" \in DOMAIN entry.updated_at[1] THEN entry.updated_at[1].iso ELSE LetterFirst

\* sorted() compares None with a string, or None with None: TypeError
SortRaises(entries) ==
    /\ Len(entries) >= 2
    /\ \E j \in 1..Len(entries) : entries[j].updated_at = <<>>

\* sorted(..., reverse=True): descending and stable
RECURSIVE InsertDesc(_, _)
InsertDesc(e, sorted) ==
    IF sorted = <<>> THEN <<e>>
    ELSE IF SortKey(Head(sorted)) <= SortKey(e) THEN <<e>> \o sorted
    ELSE <<Head(sorted)>> \o InsertDesc(e, Tail(sorted))

RECURSIVE SortedDesc(_)
SortedDesc(entries) ==
    IF entries = <<>> THEN <<>>
    ELSE InsertDesc(Head(entries), SortedDesc(Tail(entries)))

\* SessionManager.list_sessions, the files being visited in the given order:
\* whether the call raised, and what it returned
list_sessions(fs, order) ==
    IF SortRaises(Summaries(fs, order)) THEN [raised |-> TRUE, out |-> <<>>]
    ELSE [raised |-> FALSE, out |-> SortedDesc(Summaries(fs, order))]

\* the orders in which glob can yield the files
GlobOrders(fs) ==
    {order \in [1..Cardinality(DOMAIN fs) -> DOMAIN fs] :
        \A a \in DOMAIN order : \A b \in DOMAIN order : order[a] = order[b] => a = b}

-----------------------------------------------------------------------------
(* Spec: a SessionManager and the Session objects it hands out.            *)

MaxInst == 2       \* Session objects allocated

KeyAB == <<"a", ":", "b">>
Keys == {KeyAB, KeyCli}

\* the arguments (role, content, kwargs) of the add_message calls tried
MgrInputs ==
    { <<"user", "hi", EmptyDict>>,
      <<"user", "note", ("_type" :> "metadata")>>,
      <<"user", "note", ("_type" :> "metadata") @@ [last_consolidated |-> 3]>> }

Mgr == [sessions |-> sessions, cache |-> cache, files |-> files, legacy |-> legacy]

Instances == 1..Len(sessions)

SameKey(i) == {j \in Instances : sessions[j].key = sessions[i].key}

InitManager ==
    /\ sessions = <<>>
    /\ cache = EmptyDict
    /\ files = EmptyDict
    /\ legacy = EmptyDict
    /\ now = 0
    /\ disturbed = {}
    /\ lastSaved = EmptyDict
    /\ lastOp = Other

Init == InitManager /\ NoDispatch /\ NoJobs

\* what a get_or_create that returned r, or raised, did
GetOrCreateDone(key, path, r) ==
    /\ Len(r.M.sessions) <= MaxInst
    /\ sessions' = r.M.sessions
    /\ cache' = r.M.cache
    /\ files' = r.M.files
    /\ legacy' = r.M.legacy
    /\ lastSaved' = IF path \in DOMAIN files /\ r.M.files[path] # files[path]
                    THEN Put(lastSaved, path,
                             [key |-> key,
                              history |-> get_history(r.M.sessions[r.ret], Huge)])
                    ELSE lastSaved
    /\ lastOp' = IF r.op = "get" THEN Other
                 ELSE [op |-> r.op, inst |-> r.ret, key |-> key, saved |-> r.saved]
    /\ UNCHANGED <<now, disturbed>>
    /\ UNCHANGED dispatchVars
    /\ UNCHANGED cronVars

GetOrCreate(key) ==
    \E r \in {get_or_create(Mgr, key, now)} :
        GetOrCreateDone(key, _get_session_path(key), r)

Save(i) ==
    \E M \in {save(Mgr, i)} :
        /\ sessions' = M.sessions
        /\ cache' = M.cache
        /\ files' = M.files
        /\ legacy' = M.legacy
        /\ disturbed' = disturbed \cup (SameKey(i) \ {i})
        /\ lastSaved' = Put(lastSaved, _get_session_path(sessions[i].key),
                            [key |-> sessions[i].key,
                             history |-> get_history(sessions[i], Huge)])
        /\ lastOp' = Other
        /\ UNCHANGED now
        /\ UNCHANGED dispatchVars
        /\ UNCHANGED cronVars

Invalidate(key) ==
    \E M \in {invalidate(Mgr, key)} :
        /\ sessions' = M.sessions
        /\ cache' = M.cache
        /\ files' = M.files
        /\ legacy' = M.legacy
        /\ disturbed' = disturbed \cup {j \in Instances : sessions[j].key = key}
        /\ lastOp' = [op |-> "invalidate", inst |-> 0, key |-> key]
        /\ UNCHANGED <<now, lastSaved>>
        /\ UNCHANGED dispatchVars
        /\ UNCHANGED cronVars

Next ==
    \/ \E key \in Keys : GetOrCreate(key)
    \/ \E i \in Instances : \E inp \in MgrInputs : AddMessage(i, inp, MgrMaxLen)
    \/ \E i \in Instances : Clear(i)
    \/ \E i \in Instances : Consolidate(i)
    \/ \E i \in Instances : Save(i)
    \/ \E key \in Keys : Invalidate(key)

Spec == Init /\ [][Next]_vars

\* SpecCache: the calls that decide which Session object a key maps to
\* (get_or_create, save, invalidate), on Sessions that grow by plain messages
NextCache ==
    \/ \E key \in Keys : GetOrCreate(key)
    \/ \E i \in Instances : AddMessage(i, <<"user", "hi", EmptyDict>>, MgrMaxLen)
    \/ \E i \in Instances : Save(i)
    \/ \E key \in Keys : Invalidate(key)

SpecCache == Init /\ [][NextCache]_vars

-----------------------------------------------------------------------------
(* SpecLoad: a SessionManager started on a sessions directory that already *)
(* holds a file: one that save() wrote, one that an earlier version wrote   *)
(* with escaped non-ASCII text, or one that was edited or damaged.          *)

LoadMaxLen == 2    \* longest message log (SpecLoad)

\* a metadata line and a message line as they stand in a file
MetaLine(created, updated, lc, esc) ==
    [json |-> ("_type" :> "metadata") @@
              [created_at |-> created, updated_at |-> updated,
               metadata |-> {"pinned"}, last_consolidated |-> lc],
     ensure_ascii |-> esc]

MsgLine(content, esc) ==
    [json |-> [role |-> "user", content |-> content, timestamp |-> isoformat(1)],
     ensure_ascii |-> esc]

DiskFiles ==
    << \* written by save()
       <<MetaLine(isoformat(1), isoformat(1), 0, FALSE), MsgLine("hi", FALSE)>>,
       \* written with ensure_ascii: non-ASCII text is escaped
       <<MetaLine(isoformat(1), isoformat(2), 1, TRUE), MsgLine("tianqi", TRUE)>>,
       \* written by save(), a message holding a backslash followed by "u"
       <<MetaLine(isoformat(1), isoformat(2), 0, FALSE), MsgLine("C:/users", FALSE)>>,
       \* written with ensure_ascii, a message holding non-ASCII text and a
       \* backslash followed by "u"
       <<MetaLine(isoformat(1), isoformat(2), 0, TRUE), MsgLine("tianqi C:/users", TRUE)>>,
       \* a line that is not JSON
       <<MetaLine(isoformat(1), isoformat(1), 0, FALSE), MalformedLine>>,
       \* a line that is JSON but not an object
       <<ScalarLine>>,
       \* a metadata line with a timestamp that is not ISO 8601
       <<MetaLine(BadTimestamp, isoformat(1), 0, FALSE), MsgLine("hi", FALSE)>>,
       \* an empty first line
       <<BlankLine, MetaLine(isoformat(1), isoformat(1), 0, FALSE), MsgLine("hi", FALSE)>>,
       \* an empty file
       <<>>,
       \* no metadata line
       <<MsgLine("hi", FALSE)>>,
       \* a metadata line without fields
       <<dumps(("_type" :> "metadata"))>> >>

\* the directory holding file number n (0: none) under the given name
DirWith(path, n) ==
    IF n = 0 THEN EmptyDict ELSE [x \in {path} |-> DiskFiles[n]]

InitLoad ==
    /\ NoDispatch
    /\ NoJobs
    /\ sessions = <<>>
    /\ cache = EmptyDict
    /\ now = 3
    /\ disturbed = {}
    /\ lastSaved = EmptyDict
    /\ lastOp = Other
    /\ \E n \in 0..Len(DiskFiles) : \E m \in {0, 1} : \E old \in {0, 2} :
          /\ m = 0 \/ old = 0
          /\ files = DirWith(_get_session_path(KeyAB), n)
                        @@ DirWith(_get_session_path(KeyCli), m)
          /\ legacy = DirWith(_get_session_path(KeyCli), old)

NextLoad ==
    \/ \E key \in Keys : GetOrCreate(key)
    \/ \E i \in Instances : AddMessage(i, <<"user", "hi", EmptyDict>>, LoadMaxLen)
    \/ \E i \in Instances : Save(i)
    \/ \E key \in Keys : Invalidate(key)

SpecLoad == InitLoad /\ [][NextLoad]_vars

-----------------------------------------------------------------------------
(* SpecScan: save() and list_sessions() called from two threads.  Neither  *)
(* takes a lock, so the file operations of the one interleave with those   *)
(* of the other: open(path, "w") truncates the file, the buffered writes   *)
(* reach the file at some later point or at the close, and the scan reads  *)
(* the first line of each file in turn.                                    *)

\* the beginning of a line, when the buffer is flushed inside it
PartialLine == [raw |-> "{'_type': 'meta"]

\* save(), line 189: the file is opened for writing and is empty from then on
SaveOpen(i) ==
    /\ io.writer = <<>>
    /\ \E path \in {_get_session_path(sessions[i].key)} :
          /\ files' = Put(files, path, <<>>)
          /\ io' = [io EXCEPT !.writer = <<[inst |-> i, path |-> path,
                                           lines |-> save(Mgr, i).files[path]]>>]
    /\ lastOp' = Other
    /\ UNCHANGED <<sessions, cache, legacy, now, disturbed, lastSaved>>
    /\ UNCHANGED <<pc, tkey, tinst, seen, lock, acq>>
    /\ UNCHANGED cronVars

\* lines 197-199: the buffer is flushed before the close, after some whole
\* lines or inside the first one
SaveFlush ==
    /\ io.writer # <<>>
    /\ files[io.writer[1].path] = <<>>
    /\ \E part \in {<<PartialLine>>} \cup
                    {SubSeq(io.writer[1].lines, 1, n) : n \in 1..(Len(io.writer[1].lines) - 1)} :
          files' = Put(files, io.writer[1].path, part)
    /\ lastOp' = Other
    /\ UNCHANGED <<sessions, cache, legacy, now, disturbed, lastSaved>>
    /\ UNCHANGED <<pc, tkey, tinst, seen, lock, acq, io>>
    /\ UNCHANGED cronVars

\* the end of the with block and line 201: the file is complete, the Session
\* is put in the cache
SaveClose ==
    /\ io.writer # <<>>
    /\ \E w \in {io.writer[1]} :
          /\ files' = Put(files, w.path, w.lines)
          /\ cache' = Put(cache, sessions[w.inst].key, w.inst)
          /\ disturbed' = disturbed \cup (SameKey(w.inst) \ {w.inst})
          /\ lastSaved' = Put(lastSaved, w.path,
                              [key |-> sessions[w.inst].key,
                               history |-> get_history(sessions[w.inst], Huge)])
    /\ io' = [io EXCEPT !.writer = <<>>]
    /\ lastOp' = Other
    /\ UNCHANGED <<sessions, legacy, now>>
    /\ UNCHANGED <<pc, tkey, tinst, seen, lock, acq>>
    /\ UNCHANGED cronVars

\* list_sessions(), line 216: glob lists the files.  (listed: the files that
\* a save() had completed before; they exist during the whole scan.)
ScanBegin ==
    /\ io.phase # "scanning"
    /\ io' = [io EXCEPT !.phase = "scanning", !.left = DOMAIN files, !.out = <<>>,
                        !.listed = DOMAIN lastSaved, !.partial = FALSE]
    /\ lastOp' = Other
    /\ UNCHANGED <<sessions, cache, files, legacy, now, disturbed, lastSaved>>
    /\ UNCHANGED <<pc, tkey, tinst, seen, lock, acq>>
    /\ UNCHANGED cronVars

\* lines 217-231 for one file.  (partial: the file read was open for writing
\* and not complete.)
ScanRead(path) ==
    /\ io.phase = "scanning"
    /\ path \in io.left
    /\ io' = [io EXCEPT !.left = @ \ {path},
                        !.out = @ \o ReadSummary(path, files[path]),
                        !.partial = @ \/ (/\ io.writer # <<>>
                                          /\ io.writer[1].path = path
                                          /\ files[path] # io.writer[1].lines)]
    /\ lastOp' = Other
    /\ UNCHANGED <<sessions, cache, files, legacy, now, disturbed, lastSaved>>
    /\ UNCHANGED <<pc, tkey, tinst, seen, lock, acq>>
    /\ UNCHANGED cronVars

\* line 233: the summaries are sorted and returned
ScanEnd ==
    /\ io.phase = "scanning"
    /\ io.left = {}
    /\ io' = [io EXCEPT !.phase = "done", !.out = SortedDesc(@)]
    /\ lastOp' = Other
    /\ UNCHANGED <<sessions, cache, files, legacy, now, disturbed, lastSaved>>
    /\ UNCHANGED <<pc, tkey, tinst, seen, lock, acq>>
    /\ UNCHANGED cronVars

NextScan ==
    \/ \E key \in Keys : GetOrCreate(key)
    \/ \E i \in Instances : AddMessage(i, <<"user", "hi", EmptyDict>>, MgrMaxLen)
    \/ \E i \in Instances : SaveOpen(i)
    \/ SaveFlush
    \/ SaveClose
    \/ ScanBegin
    \/ \E path \in DOMAIN files : ScanRead(path)
    \/ ScanEnd

SpecScan == Init /\ [][NextScan]_vars

\* C16: a scan that ran while save() was writing returns a summary, with
\* its timestamps, for every session that had been saved before the scan
\* began, and has read no file that was open for writing and incomplete.
C16_ScanConsistent ==
    io.phase = "done" =>
        /\ ~io.partial
        /\ \A path \in io.listed :
              \E j \in 1..Len(io.out) :
                  /\ io.out[j].path = path
                  /\ io.out[j].updated_at # <<>>

-----------------------------------------------------------------------------
(* Properties of the SessionManager.                                       *)

\* C3 as stated: get_or_create never hands out two distinct Session objects
\* for the same key.
C3_NeverTwoInstances ==
    \A i \in Instances : \A j \in Instances :
        sessions[i].key = sessions[j].key => i = j

\* C3 as amended: every Session object handed out for key K is the one the
\* cache maps K to, unless invalidate(K) was called, or another object was
\* saved under K, after it was handed out.
C3_UndisturbedHoldCached ==
    \A i \in Instances \ disturbed :
        /\ sessions[i].key \in DOMAIN cache
        /\ cache[sessions[i].key] = i

\* after invalidate and a second get_or_create: the new object is the cached
\* one while the object handed out before is still held
C3_Witness ==
    \E i \in Instances \ disturbed : \E j \in disturbed :
        /\ sessions[i].key = sessions[j].key
        /\ cache[sessions[i].key] = i

\* C4: a Session loaded from the file that save() wrote for the same key has
\* the get_history(N), N larger than the log, that it had when it was saved.
C4_ReloadRoundTrip ==
    lastOp.op = "load" =>
        LET s == sessions[lastOp.inst]
            path == _get_session_path(s.key)
        IN  (path \in DOMAIN lastSaved /\ lastSaved[path].key = s.key)
                => get_history(s, Huge) = lastSaved[path].history

\* C7: 0 <= last_consolidated <= len(messages) for every Session.
C7_WatermarkWithinLog ==
    \A i \in Instances :
        /\ 0 <= sessions[i].last_consolidated
        /\ sessions[i].last_consolidated <= Len(sessions[i].messages)

-----------------------------------------------------------------------------
(* SpecDispatch: concurrent dispatches into the agent.  The dispatch path  *)
(* is not part of the source tree; the specification describes it: a       *)
(* dispatch resolves its conversation key, takes the per-key serialization,*)
(* reads the Session's history, awaits the agent, appends its message and  *)
(* saves.  The Session calls are the source's.                             *)

MaxTasks == 3      \* dispatches

Tasks == 1..MaxTasks

\* the message text of each dispatch
MsgOf(t) == <<"m1", "m2", "m3", "m4", "m5">>[t]

InitDispatch ==
    /\ InitManager
    /\ NoJobs
    /\ pc = [t \in Tasks |-> "idle"]
    /\ tkey = [t \in Tasks |-> KeyAB]
    /\ tinst = [t \in Tasks |-> 0]
    /\ seen = [t \in Tasks |-> <<>>]
    /\ lock = EmptyDict
    /\ acq = [key \in Keys |-> <<>>]
    /\ io = NoIo

\* a trigger resolves the conversation key and asks for its serialization
Begin(t, key) ==
    /\ pc[t] = "idle"
    /\ pc' = [pc EXCEPT ![t] = "waiting"]
    /\ tkey' = [tkey EXCEPT ![t] = key]
    /\ UNCHANGED <<tinst, seen, lock, acq, io>>
    /\ UNCHANGED sessionVars
    /\ UNCHANGED cronVars

\* the serialization of the key is free: the dispatch takes it
Acquire(t) ==
    /\ pc[t] = "waiting"
    /\ tkey[t] \notin DOMAIN lock
    /\ lock' = Put(lock, tkey[t], t)
    /\ acq' = [acq EXCEPT ![tkey[t]] = Append(@, t)]
    /\ pc' = [pc EXCEPT ![t] = "read"]
    /\ UNCHANGED <<tkey, tinst, seen, io>>
    /\ UNCHANGED sessionVars
    /\ UNCHANGED cronVars

\* session = get_or_create(key); history = session.get_history(); the agent
\* is then awaited
ReadHistory(t) ==
    /\ pc[t] = "read"
    /\ \E r \in {get_or_create(Mgr, tkey[t], now)} :
          /\ Len(r.M.sessions) <= MaxInst
          /\ sessions' = r.M.sessions
          /\ cache' = r.M.cache
          /\ files' = r.M.files
          /\ legacy' = r.M.legacy
          /\ tinst' = [tinst EXCEPT ![t] = r.ret]
          /\ seen' = [seen EXCEPT ![t] = get_history(r.M.sessions[r.ret], Huge)]
    /\ pc' = [pc EXCEPT ![t] = "append"]
    /\ UNCHANGED <<tkey, lock, acq, io, now, disturbed, lastSaved, lastOp>>
    /\ UNCHANGED cronVars

\* session.add_message(...); save(session); the serialization is released
AppendAndRelease(t) ==
    /\ pc[t] = "append"
    /\ \E s \in {add_message(sessions[tinst[t]], "user", MsgOf(t), EmptyDict, now)} :
        \E M \in {save([Mgr EXCEPT !.sessions[tinst[t]] = s], tinst[t])} :
          /\ sessions' = M.sessions
          /\ cache' = M.cache
          /\ files' = M.files
          /\ legacy' = M.legacy
          /\ lastSaved' = Put(lastSaved, _get_session_path(s.key),
                              [key |-> s.key, history |-> get_history(s, Huge)])
    /\ disturbed' = disturbed \cup (SameKey(tinst[t]) \ {tinst[t]})
    /\ lock' = Pop(lock, tkey[t])
    /\ pc' = [pc EXCEPT ![t] = "done"]
    /\ UNCHANGED <<tkey, tinst, seen, acq, io, now, lastOp>>
    /\ UNCHANGED cronVars

NextDispatch ==
    \/ \E t \in Tasks : \E key \in Keys : Begin(t, key)
    \/ \E t \in Tasks : Acquire(t)
    \/ \E t \in Tasks : ReadHistory(t)
    \/ \E t \in Tasks : AppendAndRelease(t)

SpecDispatch == InitDispatch /\ [][NextDispatch]_vars

\* the dispatches of a key that hold its serialization
InFlight(key) == {t \in Tasks : tkey[t] = key /\ pc[t] \in {"read", "append"}}

\* the message texts of the dispatches that acquired key before position n
TextsBefore(key, n) == [j \in 1..(n - 1) |-> MsgOf(acq[key][j])]

Texts(messages) == [j \in 1..Len(messages) |-> messages[j].content]

PositionIn(key, t) == CHOOSE n \in 1..Len(acq[key]) : acq[key][n] = t

\* C5: at most one dispatch per key is in flight; every dispatch read the
\* history that holds exactly the messages of the dispatches that acquired
\* the key before it (so no two read the same history); and the log holds
\* the messages of the completed dispatches in the order of acquisition.
C5_SerializedPerKey ==
    /\ \A key \in Keys : Cardinality(InFlight(key)) <= 1
    /\ \A t \in Tasks : pc[t] \in {"append", "done"} =>
          Texts(seen[t]) = TextsBefore(tkey[t], PositionIn(tkey[t], t))
    /\ \A key \in Keys :
          LET finished == Cardinality({t \in Tasks : tkey[t] = key /\ pc[t] = "done"})
              log == IF key \in DOMAIN cache THEN sessions[cache[key]].messages ELSE <<>>
          IN  Texts(log) = TextsBefore(key, finished + 1)

\* two dispatches of one key have completed while a third waited for them
C5_Witness ==
    \E key \in Keys : \E t1 \in Tasks : \E t2 \in Tasks : \E t3 \in Tasks :
        /\ tkey[t1] = key /\ tkey[t2] = key /\ tkey[t3] = key
        /\ pc[t1] = "done" /\ pc[t2] = "append" /\ pc[t3] = "waiting"
        /\ Len(seen[t2]) = 1

-----------------------------------------------------------------------------
(* SpecCron: the job store and the scheduler's tick loop.  Their code is   *)
(* not part of the source tree (only tests of it are); they are modelled   *)
(* from the specification (data model, JobSchedule, JobStore, Scheduler).  *)

MaxJobs == 1       \* jobs ever added
MaxTime == 4       \* last clock value
MaxSkip == 3       \* longest time between two ticks

\* the schedules tried: Every{intervalMs}, At{timestampMs}
Schedules ==
    { [kind |-> "every", everyMs |-> 2],
      [kind |-> "at", atMs |-> 1],
      [kind |-> "at", atMs |-> 3] }

Ids(js) == {js[i].id : i \in 1..Len(js)}

JobOf(js, id) == js[CHOOSE i \in 1..Len(js) : js[i].id = id]

\* JobSchedule: the next fire time.  Every: previous fire (or creation) plus
\* the interval; At: the timestamp.
NextFire(job) ==
    IF job.schedule.kind = "at" THEN job.schedule.atMs
    ELSE Get(job.state, "lastFireMs", job.createdAtMs) + job.schedule.everyMs

\* mutant of Due: the enabled flag is not looked at
Due_any(job, t) == NextFire(job) <= t

\* the tick evaluates only enabled jobs, and dispatches those whose next
\* fire time has come
Due(job, t) == job.enabled /\ NextFire(job) <= t

\* mutant of Rescheduled: the cadence continues from the missed fire time
Rescheduled_catch_up(job, t) ==
    [job EXCEPT !.state = Put(@, "lastFireMs", NextFire(job)), !.updatedAtMs = t]

\* an Every job after a dispatch at tick time t: fire once, then resume the
\* cadence from t
Rescheduled(job, t) ==
    [job EXCEPT !.state = Put(@, "lastFireMs", t), !.updatedAtMs = t]

\* mutant of AfterDispatch: a one-shot job is removed whatever the callback did
AfterDispatch_drop(job, ok, t) ==
    IF job.schedule.kind = "at" \/ job.deleteAfterRun THEN <<>>
    ELSE <<Rescheduled(job, t)>>

\* what the tick leaves of a job after its dispatch callback returned (ok)
\* or failed: <<>> when the job is removed
AfterDispatch(job, ok, t) ==
    IF job.schedule.kind = "at"
    THEN IF ok THEN <<>> ELSE <<job>>
    ELSE IF ok /\ job.deleteAfterRun THEN <<>> ELSE <<Rescheduled(job, t)>>

\* one tick at time t over the jobs js, outcome[id] being whether the
\* dispatch callback of job id returns successfully
RECURSIVE RunDue(_, _, _)
RunDue(js, outcome, t) ==
    IF js = <<>> THEN <<>>
    ELSE (IF Due(Head(js), t) THEN AfterDispatch(Head(js), outcome[Head(js).id], t)
          ELSE <<Head(js)>>) \o RunDue(Tail(js), outcome, t)

\* mutant of dumps_store: the document is written with ensure_ascii
dumps_store_ascii(js) == [doc |-> js, ensure_ascii |-> TRUE]

\* the store document as written: the jobs, and whether non-ASCII text is
\* escaped (it is written directly)
dumps_store(js) == [doc |-> js, ensure_ascii |-> FALSE]

\* the store file holds an escaped non-ASCII sequence
RawHasEscapes(file) ==
    /\ file # <<>>
    /\ file[1].ensure_ascii
    /\ \E i \in 1..Len(file[1].doc) : file[1].doc[i].payload.message \in NonAsciiText

\* every mutation rewrites the whole document
Persisted(js) == [file |-> <<dumps_store(js)>>, loaded |-> TRUE]

\* loading the store: the jobs of the document, decoded; a document with
\* legacy-escaped text is rewritten
_load_store(st) ==
    IF st.file = <<>> THEN [jobs |-> <<>>, store |-> [st EXCEPT !.loaded = TRUE]]
    ELSE [jobs |-> st.file[1].doc,
          store |-> IF RawHasEscapes(st.file) THEN Persisted(st.file[1].doc)
                    ELSE [st EXCEPT !.loaded = TRUE]]

\* the jobs a handler works on: it loads the store first when that has not
\* been done
StoreJobs == IF store.loaded THEN jobs ELSE _load_store(store).jobs

\* JobStore.listJobs
list_jobs(include_disabled) ==
    SelectSeq(jobs, LAMBDA job : include_disabled \/ job.enabled)

\* JobStore.addJob
AddJob(schedule, delete_after_run, message) ==
    /\ nextId <= MaxJobs
    /\ \E job \in {[id |-> nextId, name |-> "daily", enabled |-> TRUE,
                    schedule |-> schedule, payload |-> [message |-> message],
                    state |-> EmptyDict, createdAtMs |-> nowMs, updatedAtMs |-> nowMs,
                    deleteAfterRun |-> delete_after_run]} :
          /\ jobs' = Append(StoreJobs, job)
          /\ added' = Put(added, nextId, job)
    /\ store' = Persisted(jobs')
    /\ calls' = Put(calls, nextId, 0)
    /\ oks' = Put(oks, nextId, 0)
    /\ nextId' = nextId + 1
    /\ UNCHANGED nowMs
    /\ UNCHANGED <<sessionVars, dispatchVars>>

\* JobStore.setEnabled
SetEnabled(id, enabled) ==
    /\ id \in Ids(StoreJobs)
    /\ jobs' = [i \in 1..Len(StoreJobs) |->
                  IF StoreJobs[i].id = id
                  THEN [StoreJobs[i] EXCEPT !.enabled = enabled, !.updatedAtMs = nowMs]
                  ELSE StoreJobs[i]]
    /\ store' = Persisted(jobs')
    /\ UNCHANGED <<nowMs, nextId, calls, oks, added>>
    /\ UNCHANGED <<sessionVars, dispatchVars>>

\* JobStore.removeJob
RemoveJob(id) ==
    /\ id \in Ids(StoreJobs)
    /\ jobs' = SelectSeq(StoreJobs, LAMBDA job : job.id # id)
    /\ store' = Persisted(jobs')
    /\ UNCHANGED <<nowMs, nextId, calls, oks, added>>
    /\ UNCHANGED <<sessionVars, dispatchVars>>

\* the tick loop, started on the loaded store, wakes up d ms after the
\* previous tick; it persists the store when a job changed
Tick(d) ==
    /\ store.loaded
    /\ nowMs + d <= MaxTime
    /\ nowMs' = nowMs + d
    /\ \E outcome \in [Ids(jobs) -> BOOLEAN] :
          /\ jobs' = RunDue(jobs, outcome, nowMs + d)
          /\ calls' = [id \in DOMAIN calls |->
                         IF id \in Ids(jobs) /\ Due(JobOf(jobs, id), nowMs + d)
                         THEN calls[id] + 1 ELSE calls[id]]
          /\ oks' = [id \in DOMAIN oks |->
                       IF id \in Ids(jobs) /\ Due(JobOf(jobs, id), nowMs + d) /\ outcome[id]
                       THEN oks[id] + 1 ELSE oks[id]]
    /\ store' = IF jobs' = jobs THEN store ELSE Persisted(jobs')
    /\ UNCHANGED <<nextId, added>>
    /\ UNCHANGED <<sessionVars, dispatchVars>>

InitCron == InitManager /\ NoDispatch /\ NoJobs

NextCron ==
    \/ \E schedule \in Schedules : \E delete_after_run \in BOOLEAN :
          AddJob(schedule, delete_after_run, "ping")
    \/ \E id \in Ids(jobs) : \E enabled \in BOOLEAN : SetEnabled(id, enabled)
    \/ \E id \in Ids(jobs) : RemoveJob(id)
    \/ \E d \in 1..MaxSkip : Tick(d)

SpecCron == InitCron /\ [][NextCron]_vars

-----------------------------------------------------------------------------
(* SpecStore: a job store service started on a store file that may have    *)
(* been written in the legacy escaped form.                                *)

LegacyJob(message) ==
    [id |-> 0, name |-> "legacy", enabled |-> TRUE,
     schedule |-> [kind |-> "every", everyMs |-> 2],
     payload |-> [message |-> message], state |-> EmptyDict,
     createdAtMs |-> 0, updatedAtMs |-> 0, deleteAfterRun |-> FALSE]

StoreFiles ==
    { <<>>,
      <<[doc |-> <<LegacyJob("tianqi")>>, ensure_ascii |-> TRUE]>>,
      <<[doc |-> <<LegacyJob("tianqi")>>, ensure_ascii |-> FALSE]>>,
      <<[doc |-> <<LegacyJob("ping")>>, ensure_ascii |-> TRUE]>> }

Messages == {"ping", "tianqi"}

\* JobStore.listJobs called on a store that is not loaded yet
ListJobs ==
    /\ ~store.loaded
    /\ \E r \in {_load_store(store)} :
          /\ jobs' = r.jobs
          /\ store' = r.store
    /\ UNCHANGED <<nowMs, nextId, calls, oks, added>>
    /\ UNCHANGED <<sessionVars, dispatchVars>>

InitStore ==
    /\ InitManager
    /\ NoDispatch
    /\ jobs = <<>>
    /\ nowMs = 1
    /\ nextId = 1
    /\ calls = EmptyDict
    /\ oks = EmptyDict
    /\ \E file \in StoreFiles :
          /\ store = [file |-> file, loaded |-> FALSE]
          /\ added = IF file = <<>> THEN EmptyDict
                     ELSE [id \in {0} |-> file[1].doc[1]]

NextStore ==
    \/ ListJobs
    \/ \E schedule \in Schedules : \E delete_after_run \in BOOLEAN :
          \E message \in Messages : AddJob(schedule, delete_after_run, message)
    \/ \E id \in Ids(StoreJobs) : \E enabled \in BOOLEAN : SetEnabled(id, enabled)
    \/ \E id \in Ids(StoreJobs) : RemoveJob(id)

SpecStore == InitStore /\ [][NextStore]_vars

\* C15: once the service has loaded the store or added a job, the store
\* file holds no escaped non-ASCII sequence, and the jobs that list_jobs
\* returns are those of the file, with the message text as it was given to
\* add_job or as the file the service started on encoded it.
C15_StoreDirectlyEncoded ==
    store.loaded =>
        /\ ~RawHasEscapes(store.file)
        /\ store.file # <<>> => list_jobs(TRUE) = store.file[1].doc
        /\ \A i \in 1..Len(jobs) :
              jobs[i].payload.message = added[jobs[i].id].payload.message

\* a job of a legacy escaped file and an added job, both with non-ASCII
\* text, in a store that the service has loaded
C15_Witness ==
    /\ store.loaded
    /\ 0 \in DOMAIN added
    /\ Len(jobs) = 2
    /\ jobs[1].id = 0
    /\ jobs[1].payload.message \in NonAsciiText
    /\ jobs[2].payload.message \in NonAsciiText
    /\ store.file # <<>>

-----------------------------------------------------------------------------
(* Properties of the scheduler.                                            *)

IsTick == nowMs' # nowMs

\* C6: an At job is dispatched at every tick at which it is enabled and due
\* and at no other step; a tick removes it exactly when its callback returned
\* successfully, and otherwise leaves its record as it was (so it is due, and
\* dispatched, again at the next tick); once it has left the store it is not
\* in listJobs(), is never dispatched again and never comes back; it is
\* dispatched successfully at most once.
C6_AtJobStep ==
    /\ \A i \in 1..Len(jobs) :
          LET job == jobs[i]
              id == job.id
              due == IsTick /\ Due(job, nowMs')
          IN  job.schedule.kind = "at" =>
                /\ calls'[id] = calls[id] + (IF due THEN 1 ELSE 0)
                /\ (due /\ oks'[id] = oks[id] + 1) => id \notin Ids(list_jobs(TRUE)')
                /\ (due /\ oks'[id] = oks[id]) =>
                      (id \in Ids(jobs') /\ JobOf(jobs', id) = job)
                /\ (IsTick /\ id \notin Ids(jobs')) => (due /\ oks'[id] = oks[id] + 1)
                /\ oks'[id] <= 1
    /\ \A id \in DOMAIN calls \ Ids(jobs) :
          /\ id \notin Ids(jobs')
          /\ calls'[id] = calls[id]
          /\ oks'[id] = oks[id]

C6_AtJobOnce == [][C6_AtJobStep]_vars

\* an At job whose callback failed, was retried, succeeded and was removed
C6_Witness ==
    \E id \in DOMAIN added :
        /\ added[id].schedule.kind = "at"
        /\ calls[id] >= 2
        /\ oks[id] = 1
        /\ id \notin Ids(list_jobs(TRUE))

\* the record of a job, the enabled flag and updatedAtMs left aside
Core(job) == [job EXCEPT !.enabled = FALSE, !.updatedAtMs = 0]

\* C9: no step makes a dispatch call for a disabled job; a tick leaves the
\* record of a disabled job as it was; setEnabled(id, false) changes only the
\* enabled flag and updatedAtMs; so a job disabled before it was ever
\* dispatched differs from the job as added in those two fields only.
C9_DisabledStep ==
    /\ \A i \in 1..Len(jobs) :
          LET job == jobs[i]
              id == job.id
          IN  /\ ~job.enabled =>
                    /\ calls'[id] = calls[id]
                    /\ IsTick => (id \in Ids(jobs') /\ JobOf(jobs', id) = job)
              /\ (job.enabled /\ id \in Ids(jobs') /\ ~JobOf(jobs', id).enabled) =>
                    JobOf(jobs', id) =
                        [job EXCEPT !.enabled = FALSE, !.updatedAtMs = nowMs]
    /\ \A id \in Ids(jobs') :
          (~JobOf(jobs', id).enabled /\ calls'[id] = 0) =>
              Core(JobOf(jobs', id)) = Core(added'[id])

C9_DisabledNeverDispatched == [][C9_DisabledStep]_vars

\* a tick has run at or after the fire time of a disabled job
C9_Witness ==
    \E i \in 1..Len(jobs) :
        /\ ~jobs[i].enabled
        /\ NextFire(jobs[i]) <= nowMs
        /\ jobs[i].updatedAtMs < nowMs
        /\ calls[jobs[i].id] = 0

\* C10: at a tick, an enabled Every job is dispatched once if its fire time
\* (previous fire, or creation, plus intervalMs) has come, however many
\* intervals were missed, and not at all otherwise; after a dispatch its next
\* fire time is the tick time plus intervalMs.
C10_EveryStep ==
    IsTick =>
        \A i \in 1..Len(jobs) :
            LET job == jobs[i]
                id == job.id
                due == NextFire(job) <= nowMs'
            IN  (job.schedule.kind = "every" /\ job.enabled) =>
                  /\ calls'[id] = calls[id] + (IF due THEN 1 ELSE 0)
                  /\ (due /\ id \in Ids(jobs')) =>
                        NextFire(JobOf(jobs', id)) = nowMs' + job.schedule.everyMs
                  /\ ~due => (id \in Ids(jobs') /\ JobOf(jobs', id) = job)

C10_FireOnceThenResume == [][C10_EveryStep]_vars

\* an Every job dispatched once at a tick that came two intervals or more
\* after its creation
C10_Witness ==
    \E i \in 1..Len(jobs) :
        /\ jobs[i].schedule.kind = "every"
        /\ calls[jobs[i].id] = 1
        /\ "lastFireMs" \in DOMAIN jobs[i].state
        /\ jobs[i].state["lastFireMs"] >= jobs[i].createdAtMs + 2 * jobs[i].schedule.everyMs

-----------------------------------------------------------------------------
(* Properties of loading (SpecLoad).                                       *)

\* the step is a get_or_create(key) that went to the disk
IsLoadStep(key) ==
    /\ lastOp'.op \in {"load", "create", "raise"}
    /\ lastOp'.key = key
    /\ key \notin DOMAIN cache

\* the lines that _load will read for the key: those of its file, or of the
\* legacy file that is moved into place
HasSource(key) ==
    _get_session_path(key) \in DOMAIN files \cup DOMAIN legacy

SourceOf(key) ==
    LET path == _get_session_path(key)
    IN  IF path \in DOMAIN files THEN files[path]
        ELSE IF path \in DOMAIN legacy THEN legacy[path]
        ELSE <<>>

\* a file that cannot be parsed: it has a non-empty line that is not a JSON
\* object, or a metadata line with a malformed timestamp
Unparsable(lines) ==
    \E j \in 1..Len(lines) :
        /\ lines[j] # BlankLine
        /\ \/ "json" \notin DOMAIN lines[j]
           \/ /\ Get(lines[j].json, "_type", None) = "metadata"
              /\ \E k \in {"created_at", "updated_at"} \cap DOMAIN lines[j].json :
                    lines[j].json[k] = BadTimestamp

\* C13: a get_or_create(key) that finds an unparsable file does not raise;
\* it returns a fresh empty Session with the requested key, which is the one
\* the cache then holds for the key.
C13_UnparsableStep ==
    \A key \in Keys :
        (IsLoadStep(key) /\ HasSource(key) /\ Unparsable(SourceOf(key))) =>
            /\ lastOp'.op = "create"
            /\ lastOp'.inst = Len(sessions) + 1
            /\ sessions'[lastOp'.inst] = NewSession(key, now)
            /\ key \in DOMAIN cache'
            /\ cache'[key] = lastOp'.inst

C13_UnparsableGivesFresh == [][C13_UnparsableStep]_vars

\* get_or_create has just created a Session although the file of the key
\* exists: the file could not be parsed
C13_Witness ==
    /\ lastOp.op = "create"
    /\ _get_session_path(lastOp.key) \in DOMAIN files
    /\ Unparsable(files[_get_session_path(lastOp.key)])
    /\ sessions[lastOp.inst].messages = <<>>

\* some line of the file holds an escaped non-ASCII sequence
HasEscapes(lines) ==
    \E j \in 1..Len(lines) :
        /\ "json" \in DOMAIN lines[j]
        /\ lines[j].ensure_ascii
        /\ Get(lines[j].json, "content", "") \in NonAsciiText

\* C14: a load that finds escaped non-ASCII sequences in the file rewrites
\* the file, leaving no such sequence in it; a load of a file that holds
\* none (as every file is that a load rewrote) does not rewrite it.
C14_LoadStep ==
    \A key \in Keys :
        (IsLoadStep(key) /\ lastOp'.op = "load") =>
            IF HasEscapes(SourceOf(key))
            THEN /\ lastOp'.saved
                 /\ ~HasEscapes(files'[_get_session_path(key)])
            ELSE ~lastOp'.saved

C14_SelfHealIdempotent == [][C14_LoadStep]_vars

\* the first line of the file is a readable metadata record
ReadableMeta(lines) ==
    /\ lines # <<>>
    /\ "json" \in DOMAIN lines[1]
    /\ Get(lines[1].json, "_type", None) = "metadata"

\* ... and it has the fields a summary reports
CompleteMeta(lines) ==
    /\ ReadableMeta(lines)
    /\ {"created_at", "updated_at"} \subseteq DOMAIN lines[1].json

\* C19: list_sessions does not raise; it returns one summary for every file
\* whose first line is a readable and complete metadata record, and none
\* for any other file; the summaries are ordered by updated_at descending.
C19_ListSkipsUnreadable ==
    \A order \in GlobOrders(files) :
        LET r == list_sessions(files, order)
        IN  /\ ~r.raised
            /\ \A p \in DOMAIN files :
                  Cardinality({j \in 1..Len(r.out) : r.out[j].path = p})
                      = IF CompleteMeta(files[p]) THEN 1 ELSE 0
            /\ \A j \in 1..(Len(r.out) - 1) :
                  SortKey(r.out[j]) >= SortKey(r.out[j + 1])

\* what a session file holds: its message lines, and the metadata and the
\* watermark of its last metadata line
MessageLines(lines) ==
    SelectSeq(lines, LAMBDA l : "json" \in DOMAIN l /\ Get(l.json, "_type", None) # "metadata")

MetadataLines(lines) ==
    SelectSeq(lines, LAMBDA l : "json" \in DOMAIN l /\ Get(l.json, "_type", None) = "metadata")

FileMessages(lines) == [j \in 1..Len(MessageLines(lines)) |-> MessageLines(lines)[j].json]

FileMetadata(lines) ==
    IF MetadataLines(lines) = <<>> THEN {}
    ELSE Get(MetadataLines(lines)[Len(MetadataLines(lines))].json, "metadata", {})

FileWatermark(lines) ==
    IF MetadataLines(lines) = <<>> THEN 0
    ELSE Get(MetadataLines(lines)[Len(MetadataLines(lines))].json, "last_consolidated", 0)

\* C17: invalidate(key) leaves the key out of the cache, and a
\* get_or_create(key) that does not find the key in the cache returns, and
\* caches, a new Session: one with the messages, metadata and
\* last_consolidated of the file of the key when that file (or the legacy
\* file) exists and parses, whatever the Session held in memory before, and
\* a fresh empty Session when there is no file.
C17_ReloadStep ==
    /\ lastOp'.op = "invalidate" => lastOp'.key \notin DOMAIN cache'
    /\ \A key \in Keys :
          IsLoadStep(key) =>
              /\ lastOp'.inst = Len(sessions) + 1
              /\ cache'[key] = lastOp'.inst
              /\ IF ~HasSource(key)
                 THEN /\ lastOp'.op = "create"
                      /\ sessions'[lastOp'.inst] = NewSession(key, now)
                 ELSE ~Unparsable(SourceOf(key)) =>
                      /\ lastOp'.op = "load"
                      /\ sessions'[lastOp'.inst].key = key
                      /\ sessions'[lastOp'.inst].messages = FileMessages(SourceOf(key))
                      /\ sessions'[lastOp'.inst].metadata = FileMetadata(SourceOf(key))
                      /\ sessions'[lastOp'.inst].last_consolidated
                            = FileWatermark(SourceOf(key))

-----------------------------------------------------------------------------
(* SpecKeys: a SessionManager used with two conversation keys that differ  *)
(* in one character, ":" against "_".                                      *)

KeyA_B == <<"a", "_", "b">>

NextKeys ==
    \/ \E key \in {KeyAB, KeyA_B} : GetOrCreate(key)
    \/ \E i \in Instances : AddMessage(i, <<"user", "hi", EmptyDict>>, MgrMaxLen)
    \/ \E i \in Instances : Save(i)
    \/ \E key \in {KeyAB, KeyA_B} : Invalidate(key)

SpecKeys == Init /\ [][NextKeys]_vars

\* C20: a save never writes the file that was last saved under another key,
\* and a get_or_create never loads a file that was saved under another key.
C20_KeyStep ==
    /\ \A path \in DOMAIN lastSaved :
          lastSaved'[path].key = lastSaved[path].key
    /\ lastOp'.op = "load" =>
          \A path \in {_get_session_path(lastOp'.key)} \cap DOMAIN lastSaved :
              lastSaved[path].key = lastOp'.key

C20_DistinctKeysDistinctFiles == [][C20_KeyStep]_vars

\* C21: for every session file that save() wrote, list_sessions reports an
\* entry whose key is the key the Session was saved under, and
\* get_or_create of the reported key returns a Session with that key and
\* the saved history.
C21_ListedKeyIsSavedKey ==
    \A path \in DOMAIN lastSaved : \A order \in GlobOrders(files) :
        \E j \in 1..Len(list_sessions(files, order).out) :
            \E e \in {list_sessions(files, order).out[j]} :
                /\ e.path = path
                /\ e.key = lastSaved[path].key
                /\ \E r \in {get_or_create(Mgr, e.key, now)} :
                      /\ r.M.sessions[r.ret].key = lastSaved[path].key
                      /\ (r.op = "load" =>
                            get_history(r.M.sessions[r.ret], Huge) = lastSaved[path].history)

====
